---- MODULE Spec2Model ----
(***************************************************************************)
(* The library build of vite-components-lib: the build script              *)
(* "tsc --p ./tsconfig-build.json && vite build" run over a source tree,   *)
(* with the Rollup options of vite.config.ts (external, input, output).    *)
(*                                                                         *)
(* A path is a sequence of tokens; "/" and "." are tokens of their own,    *)
(* so lib/vite-env.d.ts is <<"lib","/","vite-env",".","d",".","ts">> and   *)
(* string concatenation is \o.                                             *)
(***************************************************************************)
EXTENDS Integers, Sequences, FiniteSets, TLC

VARIABLES tree, broken, pc, error, found, input, bundle, written, dist,
          run, prevDist

vars == <<tree, broken, pc, error, found, input, bundle, written, dist,
          run, prevDist>>

(* ---------------------------------------------------------------- bounds *)

MaxFiles == 5

MaxRuns == 2

(* ----------------------------------------------------------- source tree *)

MainTs == <<"lib", "/", "main", ".", "ts">>

ViteEnvDTs == <<"lib", "/", "vite-env", ".", "d", ".", "ts">>

ButtonTsx == <<"lib", "/", "components", "/", "Button", "/", "index", ".", "tsx">>

TextTsx == <<"lib", "/", "components", "/", "Text", "/", "index", ".", "tsx">>

ATs == <<"lib", "/", "a", ".", "ts">>

ATsx == <<"lib", "/", "a", ".", "tsx">>

ButtonCss == <<"lib", "/", "components", "/", "Button", "/", "styles", ".", "module", ".", "css">>

TextCss == <<"lib", "/", "components", "/", "Text", "/", "styles", ".", "module", ".", "css">>

AppTsx == <<"src", "/", "App", ".", "tsx">>

Universe == {MainTs, ViteEnvDTs, ButtonTsx, TextTsx, ATs, ATsx, ButtonCss, TextCss, AppTsx}

(* ------------------------------------------------------- string helpers *)

StartsWith(s, p) == Len(s) >= Len(p) /\ SubSeq(s, 1, Len(p)) = p

EndsWith(s, p) == Len(s) >= Len(p) /\ SubSeq(s, Len(s) - Len(p) + 1, Len(s)) = p

\* index of the last occurrence of token t in s, 0 when there is none
LastIndexOf(s, t) ==
    LET hits == {i \in 1..Len(s) : s[i] = t}
    IN IF hits = {} THEN 0 ELSE CHOOSE i \in hits : \A j \in hits : j <= i

\* path.basename: what follows the last "/"
basename(p) == SubSeq(p, LastIndexOf(p, "/") + 1, Len(p))

\* path.dirname, with its trailing "/" kept
dirname(p) == SubSeq(p, 1, LastIndexOf(p, "/"))

\* path.extname: from the last "." of the basename to its end; empty when the
\* basename has no "." or only a leading one
extname(p) ==
    LET b == basename(p)
        d == LastIndexOf(b, ".")
    IN IF d <= 1 THEN <<>> ELSE SubSeq(b, d, Len(b))

\* path.relative(from, to) for a one-segment `from`
relative(from, to) ==
    IF StartsWith(to, <<from, "/">>)
    THEN SubSeq(to, 3, Len(to))
    ELSE <<"..", "/">> \o to

ProjectRoot == <<"/", "repo", "/">>

\* fileURLToPath(new URL(file, import.meta.url)): the absolute path of file
fileURLToPath(file) == ProjectRoot \o file

(* ------------------------------------------------- contents of the sources *)

React == <<"react">>

ReactDom == <<"react-dom">>

JsxRuntime == <<"react", "/", "jsx-runtime">>

ReactDomClient == <<"react-dom", "/", "client">>

\* the modules of lib a source imports by relative path: main.ts re-exports
\* the components that exist (export { Button } from "./components/Button")
InternalImports(file, t) ==
    IF file = MainTs THEN {ButtonTsx, TextTsx} \cap t ELSE {}

\* import styles from "./styles.module.css" (Button and Text)
StyleImports(file) ==
    IF file \in {ButtonTsx, TextTsx}
    THEN {dirname(file) \o <<"styles", ".", "module", ".", "css">>}
    ELSE {}

\* the bare identifiers a source imports (JSX compiles to react/jsx-runtime)
PackageImports(file) ==
    CASE file = ButtonTsx -> {React, JsxRuntime}
      [] file = TextTsx -> {JsxRuntime}
      [] file = ATs -> {ReactDomClient}
      [] file = ATsx -> {ReactDom, JsxRuntime}
      [] OTHER -> {}

(* ------------------------------------------------------------ package.json *)

\* tsconfig-build.json: "include": ["lib"]
TscIncludes(file) == StartsWith(file, <<"lib", "/">>)

\* the files of the tree tsc reports an error in
TypeErrors(t, b) == {f \in t : TscIncludes(f) /\ f \in b}

\* a side-effect list written for another stylesheet extension
sideEffectsScss == << <<"**", "/", "*", ".", "scss">> >>

\* "sideEffects": ["**/*.css"]
sideEffects == << <<"**", "/", "*", ".", "css">> >>

\* whether path matches the pattern **/*.<ext> (any directory depth, a
\* basename that does not start with a dot and ends in .<ext>)
MatchesPattern(path, pattern) ==
    /\ StartsWith(pattern, <<"**", "/", "*">>)
    /\ LET suffix == SubSeq(pattern, 4, Len(pattern))
           b == basename(path)
       IN /\ Len(b) > Len(suffix)
          /\ b[1] # "."
          /\ EndsWith(b, suffix)

(* ---------------------------------------------------------- vite.config.ts *)

\* rollupOptions.external
external == <<React, ReactDom, JsxRuntime>>

\* Classify as a prefix test: a subpath of a listed package counts as listed
ClassifyByPrefix(id) ==
    IF \E i \in 1..Len(external) :
          external[i] = id \/ StartsWith(id, external[i] \o <<"/">>)
    THEN "External" ELSE "Bundle"

\* Rollup's test of an import identifier against a list of strings
Classify(id) ==
    IF \E i \in 1..Len(external) : external[i] = id THEN "External" ELSE "Bundle"

\* glob pattern lib/**/*.{ts,tsx}: below lib, no path segment starting with
\* a dot, extension .ts or .tsx
GlobMatch(file) ==
    /\ StartsWith(file, <<"lib", "/">>)
    /\ \A i \in 1..(Len(file) - 1) : file[i] = "/" => file[i + 1] # "."
    /\ LET b == basename(file)
       IN \/ (Len(b) > 2 /\ EndsWith(b, <<".", "ts">>))
          \/ (Len(b) > 2 /\ EndsWith(b, <<".", "tsx">>))

\* the sequences that list every element of set S exactly once
Orderings(S) ==
    {s \in [1..Cardinality(S) -> S] : \A i, j \in 1..Cardinality(S) : s[i] = s[j] => i = j}

\* glob.sync: the matched files, in the order the directory walk yields them
GlobSync(t) == Orderings({f \in t : GlobMatch(f)})

\* MapEntry cutting the name at the first dot of the basename
MapEntryFirstDot(file) ==
    LET b == basename(file)
        d == CHOOSE i \in 1..Len(b) : b[i] = "." /\ \A j \in 1..(i - 1) : b[j] # "."
    IN <<relative("lib", SubSeq(file, 1, Len(file) - Len(b) + d - 1)),
         fileURLToPath(file)>>

\* .map((file) => [relative("lib", file minus its extension), fileURLToPath(...)])
MapEntry(file) ==
    <<relative("lib", SubSeq(file, 1, Len(file) - Len(extname(file)))),
      fileURLToPath(file)>>

\* Object.fromEntries: a key seen again keeps its place and takes the new value
RECURSIVE FromEntries(_)
FromEntries(pairs) ==
    IF pairs = <<>> THEN <<>>
    ELSE LET front == FromEntries(SubSeq(pairs, 1, Len(pairs) - 1))
             last == pairs[Len(pairs)]
         IN IF \E i \in 1..Len(front) : front[i][1] = last[1]
            THEN [i \in 1..Len(front) |->
                     IF front[i][1] = last[1] THEN last ELSE front[i]]
            ELSE Append(front, last)

\* rollupOptions.input for a walk order
InputMap(walk) == FromEntries([i \in 1..Len(walk) |-> MapEntry(walk[i])])

\* output.entryFileNames: "[name].js"
entryFileNames(name) == name \o <<".", "js">>

\* output.assetFileNames: "assets/[name][extname]" for an asset called name
assetFileNames(name) ==
    LET ext == extname(name)
    IN <<"assets", "/">> \o SubSeq(name, 1, Len(name) - Len(ext)) \o ext

(* ------------------------------------------------------------------ Rollup *)
(* What the configured tools do with the options of vite.config.ts: Rollup  *)
(* gives every key of input a chunk of its own, Vite emits one stylesheet   *)
(* per chunk that has styles, libInjectCss adds the import of it.           *)

\* the source file an entry of the input map points at
SourceOf(abs) == SubSeq(abs, Len(ProjectRoot) + 1, Len(abs))

\* the source files that are entry modules of the build
EntryFiles(inp) == {SourceOf(inp[i][2]) : i \in 1..Len(inp)}

\* the output file of the entry chunk whose module is file
ChunkFileOf(file, inp) ==
    entryFileNames(inp[CHOOSE i \in 1..Len(inp) : SourceOf(inp[i][2]) = file][1])

\* ChunkImports of a build that makes every entry depend on every other one
ChunkImportsAll(file, inp, t) ==
    {ChunkFileOf(g, inp) : g \in EntryFiles(inp) \ {file}}

\* an imported module that is an entry module stays in its own chunk and
\* is imported from it
ChunkImports(file, inp, t) ==
    {ChunkFileOf(g, inp) : g \in InternalImports(file, t) \cap EntryFiles(inp)}

\* an imported module that is no entry module is compiled into the importer
Inlined(file, inp, t) == InternalImports(file, t) \ EntryFiles(inp)

\* the imports of the build that nothing in the tree resolves
Unresolved(inp, t) ==
    {c \in UNION {StyleImports(f) : f \in EntryFiles(inp)} : c \notin t}

\* Rollup never emits two files under one name: a taken name gets a counter
\* before its extension (index.css, index2.css, ...)
RECURSIVE Numbered(_, _, _)
Numbered(name, taken, n) ==
    LET ext == extname(name)
        try == SubSeq(name, 1, Len(name) - Len(ext)) \o <<ToString(n)>> \o ext
    IN IF try \in taken THEN Numbered(name, taken, n + 1) ELSE try

makeUnique(name, taken) == IF name \in taken THEN Numbered(name, taken, 2) ELSE name

\* the name Vite gives the stylesheet of a chunk: the chunk's file, as .css
CssAssetName(file) ==
    LET b == basename(file)
    IN SubSeq(b, 1, Len(b) - Len(extname(b))) \o <<".", "css">>

\* a build without the injection plugin: the stylesheet is emitted, not imported
libInjectCssOff(importedCss) == <<>>

\* libInjectCss: one import statement per stylesheet the chunk carries
libInjectCss(importedCss) == importedCss

FileNames(b) == {b[i].fileName : i \in 1..Len(b)}

Chunks(b) == {b[i] : i \in {j \in 1..Len(b) : b[j].type = "chunk"}}

Assets(b) == {b[i] : i \in {j \in 1..Len(b) : b[j].type = "asset"}}

\* what rendering entry e = <<name, absolute file>> adds to the bundle: the
\* chunk, and before it the stylesheet of the chunk when it has one
Render(e, inp, t, b) ==
    LET file == SourceOf(e[2])
        mods == {file} \cup Inlined(file, inp, t)
        css == UNION {StyleImports(m) : m \in mods}
        pkgs == UNION {PackageImports(m) : m \in mods}
        cssFile == makeUnique(assetFileNames(CssAssetName(file)), FileNames(b))
        asset == [fileName |-> cssFile, type |-> "asset", facade |-> file,
                  modules |-> css, imports |-> {}, externals |-> {},
                  bundled |-> {}, styleImports |-> <<>>]
        chunk == [fileName |-> entryFileNames(e[1]), type |-> "chunk",
                  facade |-> file, modules |-> mods,
                  imports |-> ChunkImports(file, inp, t),
                  externals |-> {id \in pkgs : Classify(id) = "External"},
                  bundled |-> {id \in pkgs : Classify(id) = "Bundle"},
                  styleImports |-> IF css = {} THEN <<>>
                                   ELSE libInjectCss(<<cssFile>>)]
    IN IF css = {} THEN <<chunk>> ELSE <<asset, chunk>>

(* ---------------------------------------------------------- the build run *)

Init ==
    /\ tree \in {t \in SUBSET Universe : Cardinality(t) <= MaxFiles}
    /\ broken \in {b \in SUBSET tree : Cardinality(b) <= 1}
    /\ pc = "tsc"
    /\ error = "none"
    /\ found = <<>>
    /\ input = <<>>
    /\ bundle = <<>>
    /\ written = {}
    /\ dist = {}
    /\ run = 1
    /\ prevDist = {}

\* the build script with ";" for "&&": vite build runs whatever tsc reports
Semicolon(status) == "config"

\* the shell's && : the right-hand command runs only after the left-hand one
\* exits with status 0
AndAnd(status) == IF status = 0 THEN "config" ELSE "failed"

\* tsc --p ./tsconfig-build.json: one type check of everything under lib
Tsc ==
    /\ pc = "tsc"
    /\ LET status == IF TypeErrors(tree, broken) = {} THEN 0 ELSE 2
       IN /\ pc' = AndAnd(status)
          /\ error' = IF status = 0 THEN "none" ELSE "TypeCheckError"
    /\ UNCHANGED <<tree, broken, found, input, bundle, written, dist, run, prevDist>>

\* vite build loads vite.config.ts: rollupOptions.input is evaluated
LoadConfig ==
    /\ pc = "config"
    /\ \E walk \in GlobSync(tree) :
          /\ found' = walk
          /\ input' = InputMap(walk)
    /\ pc' = "resolve"
    /\ UNCHANGED <<tree, broken, error, bundle, written, dist, run, prevDist>>

\* Rollup builds the module graph from the entries; no entry, or an import
\* that resolves to nothing, ends the build
Resolve ==
    /\ pc = "resolve"
    /\ IF Len(input) = 0
       THEN pc' = "failed" /\ error' = "NoInputError"
       ELSE IF Unresolved(input, tree) # {}
       THEN pc' = "failed" /\ error' = "UnresolvedImportError"
       ELSE pc' = "render" /\ error' = error
    /\ UNCHANGED <<tree, broken, found, input, bundle, written, dist, run, prevDist>>

\* one entry chunk is rendered into the bundle held in memory, in the order
\* of the input map's keys
RenderChunk ==
    /\ pc = "render"
    /\ LET i == Cardinality(Chunks(bundle)) + 1
       IN /\ bundle' = bundle \o Render(input[i], input, tree, bundle)
          /\ pc' = IF i = Len(input) THEN "prepare" ELSE "render"
    /\ UNCHANGED <<tree, broken, error, found, input, written, dist, run, prevDist>>

\* emptyOutDir: the output directory is emptied before the bundle is written
PrepareOutDir ==
    /\ pc = "prepare"
    /\ dist' = {}
    /\ pc' = "write"
    /\ UNCHANGED <<tree, broken, error, found, input, bundle, written, run, prevDist>>

\* one file of the bundle is written to the output directory
WriteFile ==
    /\ pc = "write"
    /\ \E i \in 1..Len(bundle) :
          /\ bundle[i].fileName \notin written
          /\ dist' = dist \cup {bundle[i]}
          /\ written' = written \cup {bundle[i].fileName}
    /\ pc' = IF written' = FileNames(bundle) THEN "done" ELSE "write"
    /\ UNCHANGED <<tree, broken, error, found, input, bundle, run, prevDist>>

\* the build script is run again over the unchanged tree
Rerun ==
    /\ pc \in {"done", "failed"}
    /\ run < MaxRuns
    /\ run' = run + 1
    /\ prevDist' = dist
    /\ pc' = "tsc"
    /\ error' = "none"
    /\ found' = <<>>
    /\ input' = <<>>
    /\ bundle' = <<>>
    /\ written' = {}
    /\ UNCHANGED <<tree, broken, dist>>

Next ==
    \/ Tsc
    \/ LoadConfig
    \/ Resolve
    \/ RenderChunk
    \/ PrepareOutDir
    \/ WriteFile
    \/ Rerun

Spec == Init /\ [][Next]_vars

(* ------------------------------------------------------------- the claims *)

\* the configuration has been evaluated in this run
ConfigLoaded == pc \in {"resolve", "render", "prepare", "write", "done"}

\* two files of the walk get the same key of the input map
HasCollision(walk) ==
    \E i, j \in 1..Len(walk) : i # j /\ MapEntry(walk[i])[1] = MapEntry(walk[j])[1]

\* the script files of the tree in ascending order of their path strings
AscendingPaths == <<ATs, ATsx, ButtonTsx, TextTsx, MainTs, ViteEnvDTs>>

PathRank(f) == CHOOSE i \in 1..Len(AscendingPaths) : AscendingPaths[i] = f

\* the output files the static imports of the output file `from` lead to
RECURSIVE ReachFrom(_, _)
ReachFrom(seen, files) ==
    LET more == UNION {c.imports : c \in {d \in files : d.fileName \in seen}}
    IN IF more \subseteq seen THEN seen ELSE ReachFrom(seen \cup more, files)

Reach(c, files) == ReachFrom(c.imports, files)

\* the sources a source leads to through relative imports
RECURSIVE SourceClosure(_, _)
SourceClosure(seen, t) ==
    LET more == UNION {InternalImports(f, t) : f \in seen}
    IN IF more \subseteq seen THEN seen ELSE SourceClosure(seen \cup more, t)

\* C1: every file the entry pattern matches appears exactly once in the input
\* map: as many keys as discovered files, and each file the value of one key.
C1_EachFileOnceInInput ==
    ConfigLoaded =>
        /\ Len(input) = Len(found)
        /\ \A i \in 1..Len(found) :
              Cardinality({j \in 1..Len(input) : input[j][2] = fileURLToPath(found[i])}) = 1

\* C2 as stated: in the built package no entry's output module reaches the
\* output module of another entry.
C2_NoEntryReachesAnother ==
    pc = "done" =>
        \A c \in Chunks(bundle) :
            Reach(c, dist) \cap {d.fileName : d \in Chunks(bundle)} = {}

\* C2 amended: in the built package the output module of entry A reaches the
\* output module of entry B exactly when the source of A imports the source
\* of B (directly or through other sources); an entry that imports no other
\* entry loads no other entry's output.
C2_ReachesExactlyImportedEntries ==
    pc = "done" =>
        \A c, d \in Chunks(bundle) :
            (d.fileName \in Reach(c, dist))
                <=> (d.facade \in SourceClosure(InternalImports(c.facade, tree), tree))

C2_Witness ==
    /\ pc = "done"
    /\ \E c, d, e \in Chunks(bundle) :
          /\ c.facade = MainTs
          /\ d.fileName \in c.imports
          /\ e.facade # MainTs /\ e # d /\ e.imports = {}

\* C3: an entry whose source imports a stylesheet has exactly one style import
\* in its output module, of an emitted asset of its own under assets/ that the
\* side-effect list matches; an entry without a stylesheet has no style import
\* and no style asset.
C3_StyleBinding ==
    pc = "done" =>
        \A c \in Chunks(bundle) :
            LET own == {a \in dist : a.type = "asset" /\ a.facade = c.facade}
            IN IF StyleImports(c.facade) # {}
               THEN /\ Len(c.styleImports) = 1
                    /\ Cardinality(own) = 1
                    /\ \A a \in own :
                          /\ a.fileName = c.styleImports[1]
                          /\ a.modules = StyleImports(c.facade)
                          /\ StartsWith(a.fileName, <<"assets", "/">>)
                          /\ \E i \in 1..Len(sideEffects) :
                                MatchesPattern(a.fileName, sideEffects[i])
                    /\ \A d \in Chunks(bundle) :
                          d # c => \A i \in 1..Len(d.styleImports) :
                                      d.styleImports[i] # c.styleImports[1]
               ELSE c.styleImports = <<>> /\ own = {}

C3_Witness ==
    /\ pc = "done"
    /\ \E c, d \in Chunks(bundle) :
          /\ StyleImports(c.facade) # {} /\ Len(c.styleImports) = 1
          /\ StyleImports(d.facade) = {} /\ d.styleImports = <<>>

\* C4: when two discovered files get the same logical name, the build ends in
\* NamingCollisionError with nothing written; it never goes on to emit.
C4_CollisionAborts ==
    (ConfigLoaded \/ pc = "failed") /\ HasCollision(found) =>
        /\ pc \in {"resolve", "failed"}
        /\ pc = "failed" => error = "NamingCollisionError"
        /\ written = {}

\* C5: a second run of the build over the unchanged tree ends with the same
\* output files, with the same content, as the first, whatever order the file
\* discovery returned in either run.
C5_SameOutputEveryRun ==
    (run > 1 /\ pc = "done") => dist = prevDist

\* C6: an identifier a chunk imports is left external exactly when it is one of
\* react, react-dom, react/jsx-runtime, and is bundled otherwise; no identifier
\* is external in one chunk and bundled in another.
C6_Classification ==
    \A c \in Chunks(bundle) :
        LET ids == UNION {PackageImports(m) : m \in c.modules}
        IN /\ \A id \in ids :
                 /\ id \in c.externals <=> id \in {React, ReactDom, JsxRuntime}
                 /\ id \in c.bundled <=> id \notin {React, ReactDom, JsxRuntime}
           /\ c.externals \cup c.bundled = ids
           /\ \A d \in Chunks(bundle) : c.externals \cap d.bundled = {}

C6_Witness ==
    \E c, d \in Chunks(bundle) :
        /\ ReactDomClient \in c.bundled
        /\ React \in d.externals

\* C7: nothing is rendered or written before the type check has passed; when a
\* file under lib has a type error the run ends failed with no file written.
C7_FailFast ==
    /\ pc = "tsc" => bundle = <<>> /\ written = {}
    /\ pc = "failed" => written = {}
    /\ TypeErrors(tree, broken) # {} =>
          /\ pc \in {"tsc", "failed"}
          /\ bundle = <<>>
          /\ written = {}
    /\ (bundle # <<>> \/ written # {}) => TypeErrors(tree, broken) = {}

C7_Witness ==
    /\ pc = "failed"
    /\ error = "TypeCheckError"
    /\ Cardinality(TypeErrors(tree, broken)) = 1
    /\ Cardinality({f \in tree : GlobMatch(f)}) > 1

\* C8 as stated: after a successful build the side-effect list is exactly the
\* set of the emitted style asset paths.
C8_SideEffectsAreTheAssets ==
    pc = "done" =>
        {sideEffects[i] : i \in 1..Len(sideEffects)}
            = {a.fileName : a \in Assets(bundle)}

\* C8 amended: after a successful build every emitted style asset path matches
\* an entry of the side-effect list (the fixed pattern **/*.css), and no other
\* emitted file does.
C8_SideEffectsMatchTheAssets ==
    pc = "done" =>
        \A f \in dist :
            (f.type = "asset")
                <=> (\E i \in 1..Len(sideEffects) :
                        MatchesPattern(f.fileName, sideEffects[i]))

C8_Witness ==
    /\ pc = "done"
    /\ Cardinality({f \in dist : f.type = "asset"}) = 1
    /\ Cardinality({f \in dist : f.type = "chunk"}) = 2

\* C9: the files the discovery hands to the input map are in ascending order
\* of path.
C9_DiscoverySorted ==
    ConfigLoaded =>
        \A i, j \in 1..Len(found) :
            i < j => PathRank(found[i]) < PathRank(found[j])

\* C10: the key of a discovered file lib/<name>.<ext> is <name>, only the last
\* extension removed, and its output module is <name>.js.
C10_OutputNaming ==
    /\ \A i \in 1..Len(input) :
          \E ext \in {<<".", "ts">>, <<".", "tsx">>} :
              input[i][2] = ProjectRoot \o <<"lib", "/">> \o input[i][1] \o ext
    /\ \A c \in Chunks(bundle) :
          /\ EndsWith(c.fileName, <<".", "js">>)
          /\ \E ext \in {<<".", "ts">>, <<".", "tsx">>} :
                c.facade = <<"lib", "/">>
                              \o SubSeq(c.fileName, 1, Len(c.fileName) - 2) \o ext
          /\ c.facade = ViteEnvDTs => c.fileName = <<"vite-env", ".", "d", ".", "js">>
          /\ c.facade = MainTs => c.fileName = <<"main", ".", "js">>

C10_Witness ==
    /\ pc = "done"
    /\ \E c, d \in dist :
          /\ c.type = "chunk" /\ c.facade = ViteEnvDTs
          /\ d.type = "chunk" /\ d.facade = ButtonTsx

====
